---------------------------- MODULE Spec2Model ----------------------------
(* Model of cocoapods-size: measure_cocoapod_size.py (GetPodSizeImpact and   *)
(* its helpers), xcode_project_diff.py (GenerateSizeDifference) and          *)
(* utils.py (shell).                                                         *)
(*                                                                           *)
(* Strings the program strips, splits or compares are sequences of           *)
(* one-character strings ("A:1" is <<"A", ":", "1">>); Python dicts are      *)
(* sequences of [k, v] pairs in insertion order.                             *)
EXTENDS Integers, Sequences, FiniteSets, TLC

\* ------------------------------------------------------------------ bounds
MaxPods == 2
MaxRepos == 3
MaxEntryKeys == 4
MaxEntries == 2
MaxFiles == 2

\* --------------------------------------------------------------- constants
OBJC_APP_DIR == "sizetestproject"
OBJC_APP_NAME == "SizeTest"
SWIFT_APP_DIR == "SwiftApp"
SWIFT_APP_NAME == "SwiftApp"
MODE_SWIFT == "swift"
MODE_OBJC == "objc"
MASTER_SOURCE == "master"
CDN == "https://cdn.cocoapods.org/"
DEFAULT_SPEC_REPOS == <<CDN>>
NoneValue == "None"

SPEC_REPO_KEYS == {"cpdc-internal", "cpdc-eap", "specsstaging", MASTER_SOURCE}

SPEC_REPO_DICT(alias) ==
  CASE alias = "cpdc-internal" -> "sso://cpdc-internal/spec"
    [] alias = "cpdc-eap" -> "sso://cpdc-eap/spec"
    [] alias = "specsstaging" -> "https://github.com/firebase/SpecsStaging"
    [] alias = MASTER_SOURCE -> CDN

GetSampleApp(mode) ==
  IF mode = MODE_SWIFT
    THEN [dir |-> SWIFT_APP_DIR, name |-> SWIFT_APP_NAME]
    ELSE [dir |-> OBJC_APP_DIR, name |-> OBJC_APP_NAME]

\* ------------------------------------------------------- strings and dicts
IsSpace(c) == c = " "

RECURSIVE LStrip(_)
LStrip(s) == IF s # <<>> /\ IsSpace(Head(s)) THEN LStrip(Tail(s)) ELSE s

RECURSIVE RStrip(_)
RStrip(s) ==
  IF s # <<>> /\ IsSpace(s[Len(s)]) THEN RStrip(SubSeq(s, 1, Len(s) - 1)) ELSE s

\* str.strip()
Strip(s) == RStrip(LStrip(s))

\* str.split(sep): the parts between the separators, empty parts kept.
RECURSIVE Split(_, _)
Split(s, sep) ==
  IF \E i \in 1..Len(s) : s[i] = sep
    THEN LET i == CHOOSE j \in 1..Len(s) :
                    s[j] = sep /\ \A m \in 1..(j - 1) : s[m] # sep
         IN <<SubSeq(s, 1, i - 1)>> \o Split(SubSeq(s, i + 1, Len(s)), sep)
    ELSE <<s>>

DictKeys(d) == [i \in 1..Len(d) |-> d[i].k]
DictHas(d, key) == \E i \in 1..Len(d) : d[i].k = key
DictGet(d, key) == d[CHOOSE i \in 1..Len(d) : d[i].k = key].v

\* d[key] = value: a new key goes last, an existing key keeps its place.
DictSet(d, key, value) ==
  IF DictHas(d, key)
    THEN [i \in 1..Len(d) |-> IF d[i].k = key THEN [k |-> key, v |-> value] ELSE d[i]]
    ELSE Append(d, [k |-> key, v |-> value])

\* ----------------------------------------------- GetPodSizeImpact: parsing
\* One --cocoapods argument: name and version around the first ':'.
ParsePod(pod) ==
  LET pod_info == Split(pod, ":")
  IN [name |-> Strip(pod_info[1]),
      version |-> IF Len(pod_info) > 1 THEN Strip(pod_info[2]) ELSE <<>>]

RECURSIVE ParseCocoapods(_)
ParseCocoapods(pods) ==
  IF pods = <<>> THEN <<>>
  ELSE LET p == ParsePod(pods[Len(pods)])
       IN DictSet(ParseCocoapods(SubSeq(pods, 1, Len(pods) - 1)), p.name, p.version)

IndexOf(seq, x) ==
  CHOOSE i \in 1..Len(seq) : seq[i] = x /\ \A j \in 1..(i - 1) : seq[j] # x

RemoveAt(seq, i) == SubSeq(seq, 1, i - 1) \o SubSeq(seq, i + 1, Len(seq))

\* Variant: the list is left in its input order.
MoveMasterLast_NoMove(repos) == repos

\* spec_repos.append(spec_repos.pop(spec_repos.index(MASTER_SOURCE)))
MoveMasterLast(repos) ==
  IF \E i \in 1..Len(repos) : repos[i] = MASTER_SOURCE
    THEN Append(RemoveAt(repos, IndexOf(repos, MASTER_SOURCE)), MASTER_SOURCE)
    ELSE repos

ExpandRepo(repo) == IF repo \in SPEC_REPO_KEYS THEN SPEC_REPO_DICT(repo) ELSE repo

ExpandRepos(repos) == [i \in 1..Len(repos) |-> ExpandRepo(repos[i])]

\* --------------------------------------------------- ValidateSourceConfig
\* One entry of pod_sources['pods']: "ok" or the exception it raises.
ValidateEntry(pod_config) ==
  LET source_keys == DictKeys(pod_config)
  IN IF ~DictHas(pod_config, "sdk") THEN "KeyError"
     ELSE IF Strip(DictGet(pod_config, "sdk")) = <<>> THEN "ValueError"
     ELSE IF Len(source_keys) < 2 THEN "IndexError"
     ELSE IF source_keys[2] \notin {"git", "path"} THEN "ValueError"
     ELSE IF Len(source_keys) = 3
       THEN IF source_keys[2] # "git" THEN "ValueError"
            ELSE IF source_keys[3] \notin {"branch", "tag", "commit"} THEN "ValueError"
            ELSE "ok"
     ELSE IF Len(source_keys) > 3 THEN "ValueError"
     ELSE "ok"

RECURSIVE ValidateEntries(_)
ValidateEntries(entries) ==
  IF entries = <<>> THEN "ok"
  ELSE IF ValidateEntry(Head(entries)) # "ok" THEN ValidateEntry(Head(entries))
  ELSE ValidateEntries(Tail(entries))

ValidateSourceConfig(pod_sources) ==
  IF ~DictHas(pod_sources, "pods") THEN "ValueError"
  ELSE ValidateEntries(DictGet(pod_sources, "pods"))


\* ------------------------------------------------------ InstallPods: Podfile
\* One line of the Podfile: t is the directive, a and b its arguments (always
\* sequences: a pod's name and version, or a one-element sequence holding a
\* locator, platform version or target name), opts the ':key => value' pairs
\* of a pod line.
Line(t, a, b, opts) == [t |-> t, a |-> a, b |-> b, opts |-> opts]

NonSdk(pair) == pair.k # "sdk"

\* The for/else over pod_sources['pods'] of an unversioned pod: the line of the
\* first entry whose 'sdk' is the pod, no line when no entry matches.
RECURSIVE SourceLine(_, _)
SourceLine(pod, entries) ==
  IF entries = <<>> THEN [lines |-> <<>>, raised |-> "none"]
  ELSE IF ~DictHas(Head(entries), "sdk") THEN [lines |-> <<>>, raised |-> "KeyError"]
  ELSE IF DictGet(Head(entries), "sdk") = pod
    THEN [lines |-> <<Line("pod", pod, <<>>, SelectSeq(Head(entries), NonSdk))>>,
          raised |-> "none"]
  ELSE SourceLine(pod, Tail(entries))

\* The body of the loop over cocoapods.items() for one pod.
PodLine(pod, version, pod_sources) ==
  IF version # <<>>
    THEN [lines |-> <<Line("pod", pod, version, <<>>)>>, raised |-> "none"]
  ELSE IF pod_sources.given
    THEN IF ~DictHas(pod_sources.doc, "pods")
           THEN [lines |-> <<>>, raised |-> "KeyError"]
           ELSE SourceLine(pod, DictGet(pod_sources.doc, "pods"))
  ELSE [lines |-> <<Line("pod", pod, <<>>, <<>>)>>, raised |-> "none"]

\* The loop over cocoapods.items() from the i-th pod on: the lines written
\* until the loop ends or raises.
RECURSIVE PodLines(_, _, _)
PodLines(pods, pod_sources, i) ==
  IF i > Len(pods) THEN [lines |-> <<>>, raised |-> "none"]
  ELSE LET one == PodLine(pods[i].k, pods[i].v, pod_sources)
       IN IF one.raised # "none" THEN one
          ELSE LET rest == PodLines(pods, pod_sources, i + 1)
               IN [lines |-> one.lines \o rest.lines, raised |-> rest.raised]

SourceLines(repos) == [i \in 1..Len(repos) |-> Line("source", <<repos[i]>>, <<>>, <<>>)]

\* The text written between open('Podfile', 'w') and the end of the with
\* block, which closes the file also when the body raises.
PodfileText(pods, repos, target_name, pod_sources, version) ==
  LET head == (IF version # NoneValue
                 THEN <<Line("platform", <<version>>, <<>>, <<>>)>> ELSE <<>>)
              \o SourceLines(repos)
              \o <<Line("blank", <<>>, <<>>, <<>>),
                   Line("use_frameworks", <<>>, <<>>, <<>>),
                   Line("target", <<target_name>>, <<>>, <<>>)>>
      body == PodLines(pods, pod_sources, 1)
  IN IF body.raised # "none"
       THEN [lines |-> head \o body.lines, complete |-> FALSE, raised |-> body.raised]
       ELSE [lines |-> head \o body.lines \o <<Line("end", <<>>, <<>>, <<>>)>>,
             complete |-> TRUE, raised |-> "none"]

\* ------------------------------------------------------------- utils.shell
\* The timeout argument of shell: None, a number of seconds, or the string
\* argparse stores for --build_timeout, which is declared without a type.
NoTimeout == [type |-> "NoneType"]
StrTimeout == [type |-> "str"]
IntTimeout == [type |-> "int"]

\* How a command run by subprocess.run(timeout=timeout) can end. A timeout
\* that is no number makes Popen.communicate raise TypeError on computing the
\* deadline, and run() kills the child it had started.
Outcomes(timeout) ==
  CASE timeout.type = "NoneType" -> {"ok", "fail"}
    [] timeout.type = "int" -> {"ok", "fail", "timeout"}
    [] timeout.type = "str" -> {"killed"}

\* subprocess.run(check=True) inside try/except: CalledProcessError and
\* TimeoutExpired are printed and swallowed, and the function then returns
\* None; any other exception leaves shell.
shell(outcome, capture_stdout, stdout, timeout) ==
  [raised |-> IF timeout.type = "str" THEN "TypeError" ELSE "none",
   ret |-> IF outcome = "ok" /\ capture_stdout THEN stdout ELSE NoneValue]

\* ------------------------------------------------------ xcode_project_diff
RECURSIVE Sum(_)
Sum(files) == IF files = <<>> THEN 0 ELSE Head(files) + Sum(Tail(files))

\* os.walk of a missing Products/Applications yields nothing: the size is 0.
GetFinalBinarySize(archive) == IF archive.present THEN Sum(archive.files) ELSE 0

\* ------------------------------------------------------------------- paths
\* A path is the sequence of its components, a component the sequence of the
\* strings it is formatted from ('{}.xcworkspace' of SizeTest is
\* <<"SizeTest", ".xcworkspace">>).
InvocationDir == <<<<"invocation_dir">>>>

\* The directories the two tempfile.mkdtemp calls return (absolute paths).
BaseProject == <<<<"tmp_base">>>>
TargetProject == <<<<"tmp_target">>>>

\* os.path.join(path, name)
Join(path, name) == Append(path, name)

\* os.path.dirname(path)
Dirname(path) == SubSeq(path, 1, Len(path) - 1)

\* target_dir = os.path.join(target_project, sample_app_dir)
TargetDir(mode) == Join(TargetProject, <<GetSampleApp(mode).dir>>)

\* What InstallPods returns: os.path.join(target_dir, '{}.xcworkspace').
TargetWorkspace(mode) ==
  Join(TargetDir(mode), <<GetSampleApp(mode).name, ".xcworkspace">>)

\* os.path.join(base_project, '{}/{}.xcodeproj')
SourceProject(mode) ==
  Join(Join(BaseProject, <<GetSampleApp(mode).dir>>),
       <<GetSampleApp(mode).name, ".xcodeproj">>)

\* ---------------------------------------------------------------- os.chdir
\* Variant: the directory is not changed back.
RestoreCwd_Skipped(saved, current) == current

\* os.chdir(cwd) / os.chdir(cur_dir): back to the directory saved at entry.
RestoreCwd(saved, current) == saved

\* Variant: a chdir that never fails (the directory made on demand).
ChdirRaises_Never(exists) == FALSE

\* os.chdir raises FileNotFoundError for a directory that does not exist.
ChdirRaises(exists) == ~exists

\* ------------------------------------------------------------------ report
EXTRA_SIZE_FORMAT == "The pods combined add an extra size of {} bytes"

\* Variant: the operands exchanged.
Delta_Swapped(source_size, target_size) == source_size - target_size

\* target_size - source_size, as dumped (228) and printed (244).
Delta(source_size, target_size) == target_size - source_size

\* The pods listed by the zero-size error.
TargetPods(pods) ==
  [i \in 1..Len(pods) |->
     IF pods[i].v # <<>> THEN pods[i].k \o <<":">> \o pods[i].v ELSE pods[i].k]

\* ------------------------------------------------------------------- state
VARIABLES
  argv,          \* parsed_args as given: cocoapods, spec_repos, source_config,
                 \* json, ios_version, build_timeout, mode
  env,           \* the file system at the start: template_present, config
  pc,            \* the statement GetPodSizeImpact is at; "done" or "raised" at its end
  parsed_spec_repos, \* parsed_args.spec_repos, reordered in place
  spec_repos,    \* the locators handed to InstallPods
  cocoapods,     \* pod name -> version, in insertion order
  pod_sources,   \* [given, doc]: given is FALSE for None
  ios_version,
  tmpdirs,       \* directories made by tempfile.mkdtemp
  trees,         \* which sandbox trees hold a copy of the sample app
  cwd,           \* os.getcwd()
  saved_cwd,     \* the local holding os.getcwd() (cwd / cur_dir)
  podfile,       \* [written, complete, lines]
  calls,         \* per external command, the number of times shell ran it
  ran_in,        \* per external command, os.getcwd() when shell last ran it
  result,        \* per external command, how its last run ended
  sizes,         \* [source, target, source_measured, target_measured]
  report_file,   \* [written, delta]: the --json output file
  printed,       \* [shown, format, n]: the line print() wrote at the end
  raised         \* [type, kind, pods]: the exception that ended the run

vars == <<argv, env, pc, parsed_spec_repos, spec_repos, cocoapods, pod_sources,
          ios_version, tmpdirs, trees, cwd, saved_cwd, podfile, calls, ran_in,
          result, sizes, report_file, printed, raised>>

Commands == {"cp_base", "cp_target", "pod_init", "touch", "cat", "pod_install",
             "xcodebuild_source", "xcodebuild_target", "pod_ipc"}

NoException == [type |-> "none", kind |-> "none", pods |-> <<>>]

Exception(type, kind) == [type |-> type, kind |-> kind, pods |-> <<>>]

\* raise: the run ends where it is.
Raise(e) == pc' = "raised" /\ raised' = e

NotRun == <<>>

\* shell ran cmd once more, in the directory dir.
Ran(cmd, dir) ==
  /\ calls' = [calls EXCEPT ![cmd] = @ + 1]
  /\ ran_in' = [ran_in EXCEPT ![cmd] = dir]

\* ------------------------------------------------------------ environment
SeqsUpTo(S, n) == UNION {[1..m -> S] : m \in 0..n}

\* The byte counts 'wc -c' reports for the files of an application bundle.
FileSizes == {0, 250}

Bundles == SeqsUpTo(FileSizes, MaxFiles)

\* 'cp -r' of a missing template fails; of a present one it may still fail.
CopyOutcomes == IF env.template_present THEN {"ok", "fail"} ELSE {"fail"}

\* ---------------------------------------------------------------- actions
\* measure_cocoapod_size.py 160-185: sample app, spec repos, cocoapods.
ParseArgs ==
  /\ pc = "parse"
  /\ parsed_spec_repos' = IF Len(argv.spec_repos) > 0
                            THEN MoveMasterLast(argv.spec_repos)
                            ELSE argv.spec_repos
  /\ spec_repos' = IF Len(argv.spec_repos) > 0
                     THEN ExpandRepos(parsed_spec_repos')
                     ELSE DEFAULT_SPEC_REPOS
  /\ cocoapods' = ParseCocoapods(argv.cocoapods)
  /\ pc' = "load_config"
  /\ UNCHANGED <<argv, env, pod_sources, ios_version, tmpdirs, trees, cwd,
                 saved_cwd, podfile, calls, ran_in, result, sizes, report_file,
                 printed, raised>>

\* measure_cocoapod_size.py 189-198: json.load, then ValidateSourceConfig when
\* the document is truthy; a ValueError is raised again as ValueError, any
\* other exception leaves the try block as it is.
LoadSourceConfig ==
  /\ pc = "load_config"
  /\ pod_sources' = argv.source_config
  /\ LET verdict == IF argv.source_config.given /\ Len(argv.source_config.doc) > 0
                      THEN ValidateSourceConfig(argv.source_config.doc)
                      ELSE "ok"
     IN IF verdict = "ok"
          THEN pc' = "ios_version" /\ UNCHANGED raised
          ELSE Raise(Exception(verdict, "schema"))
  /\ UNCHANGED <<argv, env, parsed_spec_repos, spec_repos, cocoapods,
                 ios_version, tmpdirs, trees, cwd, saved_cwd, podfile, calls, ran_in,
                 result, sizes, report_file, printed>>

\* measure_cocoapod_size.py 203-207.
LoadIosVersion ==
  /\ pc = "ios_version"
  /\ IF argv.ios_version # NoneValue
       THEN ios_version' = argv.ios_version /\ pc' = "mkdtemp" /\ UNCHANGED raised
       ELSE IF ~env.config.readable
         THEN Raise(Exception("FileNotFoundError", "environment"))
              /\ UNCHANGED ios_version
         ELSE /\ ios_version' = env.config.ios_version
              /\ pc' = "mkdtemp"
              /\ UNCHANGED raised
  /\ UNCHANGED <<argv, env, parsed_spec_repos, spec_repos, cocoapods,
                 pod_sources, tmpdirs, trees, cwd, saved_cwd, podfile, calls, ran_in,
                 result, sizes, report_file, printed>>

\* measure_cocoapod_size.py 209-211: the two tempfile.mkdtemp calls.
MakeSandbox ==
  /\ pc = "mkdtemp"
  /\ tmpdirs' = tmpdirs + 2
  /\ pc' = "copy_base"
  /\ UNCHANGED <<argv, env, parsed_spec_repos, spec_repos, cocoapods,
                 pod_sources, ios_version, trees, cwd, saved_cwd, podfile,
                 calls, ran_in, result, sizes, report_file, printed, raised>>

\* CopyProject (114-121) of one tree: a single shell('cp -r ...').
CopyInto(cmd, tree, next) ==
  \E o \in CopyOutcomes :
    LET r == shell(o, FALSE, NoneValue, NoTimeout)
    IN /\ Ran(cmd, cwd)
       /\ result' = [result EXCEPT ![cmd] = o]
       /\ trees' = [trees EXCEPT ![tree] = (o = "ok")]
       /\ IF r.raised # "none"
            THEN Raise(Exception(r.raised, "uncaught"))
            ELSE pc' = next /\ UNCHANGED raised
       /\ UNCHANGED <<argv, env, parsed_spec_repos, spec_repos, cocoapods,
                      pod_sources, ios_version, tmpdirs, cwd, saved_cwd,
                      podfile, sizes, report_file, printed>>

\* measure_cocoapod_size.py 212.
CopyBase == pc = "copy_base" /\ CopyInto("cp_base", "base", "copy_target")

\* measure_cocoapod_size.py 213.
CopyTarget == pc = "copy_target" /\ CopyInto("cp_target", "target", "install")

\* InstallPods 76-79: getcwd, chdir(target_dir), 'pod init', 'touch Podfile'.
InstallPodsBegin ==
  /\ pc = "install"
  /\ saved_cwd' = cwd
  /\ IF ChdirRaises(trees.target)
       THEN /\ Raise(Exception("FileNotFoundError", "environment"))
            /\ UNCHANGED <<cwd, calls, ran_in>>
       ELSE /\ cwd' = TargetDir(argv.mode)
            /\ \E o1 \in Outcomes(NoTimeout), o2 \in Outcomes(NoTimeout) :
                 LET r1 == shell(o1, FALSE, NoneValue, NoTimeout)
                     r2 == shell(o2, FALSE, NoneValue, NoTimeout)
                 IN IF r1.raised # "none"
                      THEN /\ calls' = [calls EXCEPT !["pod_init"] = @ + 1]
                           /\ ran_in' = [ran_in EXCEPT !["pod_init"] = cwd']
                           /\ Raise(Exception(r1.raised, "uncaught"))
                      ELSE /\ calls' = [calls EXCEPT !["pod_init"] = @ + 1,
                                                     !["touch"] = @ + 1]
                           /\ ran_in' = [ran_in EXCEPT !["pod_init"] = cwd',
                                                       !["touch"] = cwd']
                           /\ IF r2.raised # "none"
                                THEN Raise(Exception(r2.raised, "uncaught"))
                                ELSE pc' = "write_podfile" /\ UNCHANGED raised
  /\ UNCHANGED <<argv, env, parsed_spec_repos, spec_repos, cocoapods,
                 pod_sources, ios_version, tmpdirs, trees, podfile, result,
                 sizes, report_file, printed>>

\* InstallPods 81-107: the Podfile is opened for writing and filled.
WritePodfile ==
  /\ pc = "write_podfile"
  /\ LET text == PodfileText(cocoapods, spec_repos, GetSampleApp(argv.mode).name,
                             pod_sources, ios_version)
     IN /\ podfile' = [written |-> TRUE, complete |-> text.complete,
                       lines |-> text.lines]
        /\ IF text.raised # "none"
             THEN Raise(Exception(text.raised, "uncaught"))
             ELSE pc' = "pod_install" /\ UNCHANGED raised
  /\ UNCHANGED <<argv, env, parsed_spec_repos, spec_repos, cocoapods,
                 pod_sources, ios_version, tmpdirs, trees, cwd, saved_cwd,
                 calls, ran_in, result, sizes, report_file, printed>>

\* InstallPods 108-111: 'cat Podfile', 'pod install', chdir(cwd), return.
PodInstall ==
  /\ pc = "pod_install"
  /\ \E o1 \in Outcomes(NoTimeout), o2 \in Outcomes(NoTimeout) :
       LET r1 == shell(o1, FALSE, NoneValue, NoTimeout)
           r2 == shell(o2, FALSE, NoneValue, NoTimeout)
       IN IF r1.raised # "none"
            THEN /\ calls' = [calls EXCEPT !["cat"] = @ + 1]
                 /\ ran_in' = [ran_in EXCEPT !["cat"] = cwd]
                 /\ Raise(Exception(r1.raised, "uncaught"))
                 /\ UNCHANGED <<result, cwd>>
            ELSE /\ calls' = [calls EXCEPT !["cat"] = @ + 1,
                                           !["pod_install"] = @ + 1]
                 /\ ran_in' = [ran_in EXCEPT !["cat"] = cwd,
                                             !["pod_install"] = cwd]
                 /\ result' = [result EXCEPT !["pod_install"] = o2]
                 /\ IF r2.raised # "none"
                      THEN Raise(Exception(r2.raised, "uncaught")) /\ UNCHANGED cwd
                      ELSE cwd' = RestoreCwd(saved_cwd, cwd)
                           /\ pc' = "size_difference"
                           /\ UNCHANGED raised
  /\ UNCHANGED <<argv, env, parsed_spec_repos, spec_repos, cocoapods,
                 pod_sources, ios_version, tmpdirs, trees, saved_cwd, podfile,
                 sizes, report_file, printed>>

\* GenerateSizeDifference 138-151: GetConfigDict and CreateBasicCommandArgs
\* read the build configuration; cur_dir = os.getcwd().
GenerateSizeDifferenceBegin ==
  /\ pc = "size_difference"
  /\ IF ~env.config.readable
       THEN Raise(Exception("FileNotFoundError", "environment"))
            /\ UNCHANGED saved_cwd
       ELSE IF ~env.config.compiler_flags
         THEN Raise(Exception("KeyError", "environment")) /\ UNCHANGED saved_cwd
         ELSE saved_cwd' = cwd /\ pc' = "build_source" /\ UNCHANGED raised
  /\ UNCHANGED <<argv, env, parsed_spec_repos, spec_repos, cocoapods,
                 pod_sources, ios_version, tmpdirs, trees, cwd, podfile, calls, ran_in,
                 result, sizes, report_file, printed>>

\* One build of GenerateSizeDifference: chdir(dir), shell(cmd, timeout),
\* GetFinalBinarySize(ARCHIVE_PATH), chdir(cur_dir). A build that did not end
\* well leaves no archive in the fresh tree.
Build(cmd, tree, dir, side, next) ==
  IF ChdirRaises(trees[tree])
    THEN /\ Raise(Exception("FileNotFoundError", "environment"))
         /\ UNCHANGED <<cwd, calls, ran_in, result, sizes>>
    ELSE \E o \in Outcomes(argv.build_timeout), files \in Bundles :
           LET r == shell(o, FALSE, NoneValue, argv.build_timeout)
               archive == [present |-> (o = "ok"), files |-> files]
           IN /\ Ran(cmd, dir)
              /\ result' = [result EXCEPT ![cmd] = o]
              /\ IF r.raised # "none"
                   THEN /\ Raise(Exception(r.raised, "uncaught"))
                        /\ cwd' = dir
                        /\ UNCHANGED sizes
                   ELSE /\ sizes' = [sizes EXCEPT
                                       ![side] = GetFinalBinarySize(archive),
                                       !.measured = @ \cup {side}]
                        /\ cwd' = RestoreCwd(saved_cwd, dir)
                        /\ pc' = next
                        /\ UNCHANGED raised

\* GenerateSizeDifference 152-155.
BuildSource ==
  /\ pc = "build_source"
  /\ Build("xcodebuild_source", "base", Dirname(SourceProject(argv.mode)),
           "source", "build_target")
  /\ UNCHANGED <<argv, env, parsed_spec_repos, spec_repos, cocoapods,
                 pod_sources, ios_version, tmpdirs, trees, saved_cwd, podfile,
                 report_file, printed>>

\* GenerateSizeDifference 156-160.
BuildTarget ==
  /\ pc = "build_target"
  /\ Build("xcodebuild_target", "target", Dirname(TargetWorkspace(argv.mode)),
           "target", "json")
  /\ UNCHANGED <<argv, env, parsed_spec_repos, spec_repos, cocoapods,
                 pod_sources, ios_version, tmpdirs, trees, saved_cwd, podfile,
                 report_file, printed>>

\* measure_cocoapod_size.py 224-230: with --json, 'pod ipc podfile-json',
\* json.loads of what shell returned, and the dump of the delta.
EmitJson ==
  /\ pc = "json"
  /\ IF argv.json = NoneValue
       THEN pc' = "report" /\ UNCHANGED <<calls, ran_in, result, report_file, raised>>
       ELSE \E o \in Outcomes(NoTimeout) :
              LET r == shell(o, TRUE, "podfile_json", NoTimeout)
              IN /\ Ran("pod_ipc", cwd)
                 /\ result' = [result EXCEPT !["pod_ipc"] = o]
                 /\ IF r.raised # "none"
                      THEN Raise(Exception(r.raised, "uncaught"))
                           /\ UNCHANGED report_file
                      ELSE IF r.ret = NoneValue
                        THEN Raise(Exception("TypeError", "uncaught"))
                             /\ UNCHANGED report_file
                        ELSE /\ report_file' =
                                  [written |-> TRUE,
                                   delta |-> Delta(sizes.source, sizes.target)]
                             /\ pc' = "report"
                             /\ UNCHANGED raised
  /\ UNCHANGED <<argv, env, parsed_spec_repos, spec_repos, cocoapods,
                 pod_sources, ios_version, tmpdirs, trees, cwd, saved_cwd,
                 podfile, sizes, printed>>

\* measure_cocoapod_size.py 237-244: the zero-size error, or the delta line.
Report ==
  /\ pc = "report"
  /\ IF sizes.target = 0
       THEN /\ Raise([type |-> "ValueError", kind |-> "measurement",
                      pods |-> TargetPods(cocoapods)])
            /\ UNCHANGED printed
       ELSE /\ printed' = [shown |-> TRUE, format |-> EXTRA_SIZE_FORMAT,
                           n |-> Delta(sizes.source, sizes.target)]
            /\ pc' = "done"
            /\ UNCHANGED raised
  /\ UNCHANGED <<argv, env, parsed_spec_repos, spec_repos, cocoapods,
                 pod_sources, ios_version, tmpdirs, trees, cwd, saved_cwd,
                 podfile, calls, ran_in, result, sizes, report_file>>

Next ==
  \/ ParseArgs
  \/ LoadSourceConfig
  \/ LoadIosVersion
  \/ MakeSandbox
  \/ CopyBase
  \/ CopyTarget
  \/ InstallPodsBegin
  \/ WritePodfile
  \/ PodInstall
  \/ GenerateSizeDifferenceBegin
  \/ BuildSource
  \/ BuildTarget
  \/ EmitJson
  \/ Report

\* ------------------------------------------------------------------ inputs
\* --cocoapods arguments: "A", "A:1", "B", " B: 2", "A:".
PodArgs == {<<"A">>, <<"A", ":", "1">>, <<"B">>, <<" ", "B", ":", " ", "2">>,
            <<"A", ":">>}

PodArgLists == SeqsUpTo(PodArgs, MaxPods) \ {<<>>}

\* --spec_repos arguments; an absent option (None) and an empty list both take
\* the 'else' of 'if parsed_args.spec_repos' and are the empty sequence here.
RepoArgs == {MASTER_SOURCE, "cpdc-eap", "https://example.com/specs"}

RepoArgLists == SeqsUpTo(RepoArgs, MaxRepos)

\* Entries of a source config: keys in document order, 'sdk' holding value,
\* every other key holding a locator.
EntryKeys == {"sdk", "git", "path", "branch", "tag", "commit", "foo"}

Entry(keys, sdk) ==
  [i \in 1..Len(keys) |->
     [k |-> keys[i], v |-> IF keys[i] = "sdk" THEN sdk ELSE <<"u">>]]

NoRepeat(keys) == \A i, j \in 1..Len(keys) : i # j => keys[i] # keys[j]

KeyLists == {keys \in SeqsUpTo(EntryKeys, MaxEntryKeys) : NoRepeat(keys)}

SdkValues == {<<"A">>, <<"C">>, <<" ">>, <<>>}

Entries == {Entry(keys, sdk) : keys \in KeyLists, sdk \in SdkValues}

CoreEntries == {Entry(<<"sdk", "git", "branch">>, <<"A">>),
                Entry(<<"sdk", "path">>, <<"A">>),
                Entry(<<"sdk", "git">>, <<"C">>),
                Entry(<<"sdk">>, <<"A">>),
                Entry(<<"sdk", "path", "branch">>, <<"A">>),
                Entry(<<"sdk", "git">>, <<" ">>)}

NoConfig == [given |-> FALSE, doc |-> <<>>]
Config(doc) == [given |-> TRUE, doc |-> doc]
PodsDoc(entries) == <<[k |-> "pods", v |-> entries]>>
EmptyDoc == <<>>
OtherDoc == <<[k |-> "dependencies", v |-> <<>>]>>

GoodEnv == [template_present |-> TRUE,
            config |-> [readable |-> TRUE, ios_version |-> "11.0",
                        compiler_flags |-> TRUE]]

Envs == {[template_present |-> t, config |-> c] :
           t \in BOOLEAN,
           c \in {[readable |-> TRUE, ios_version |-> "11.0", compiler_flags |-> TRUE],
                  [readable |-> TRUE, ios_version |-> NoneValue, compiler_flags |-> TRUE],
                  [readable |-> TRUE, ios_version |-> NoneValue, compiler_flags |-> FALSE],
                  [readable |-> FALSE, ios_version |-> NoneValue, compiler_flags |-> FALSE]}}

Args(pods, repos, config, json, ios, timeout, mode) ==
  [cocoapods |-> pods, spec_repos |-> repos, source_config |-> config,
   json |-> json, ios_version |-> ios, build_timeout |-> timeout, mode |-> mode]

\* The state GetPodSizeImpact(a) starts in, in the file system e.
Start(a, e) ==
  /\ argv = a
  /\ env = e
  /\ pc = "parse"
  /\ parsed_spec_repos = a.spec_repos
  /\ spec_repos = <<>>
  /\ cocoapods = <<>>
  /\ pod_sources = NoConfig
  /\ ios_version = NoneValue
  /\ tmpdirs = 0
  /\ trees = [base |-> FALSE, target |-> FALSE]
  /\ cwd = InvocationDir
  /\ saved_cwd = InvocationDir
  /\ podfile = [written |-> FALSE, complete |-> FALSE, lines |-> <<>>]
  /\ calls = [c \in Commands |-> 0]
  /\ ran_in = [c \in Commands |-> NotRun]
  /\ result = [c \in Commands |-> "none"]
  /\ sizes = [source |-> 0, target |-> 0, measured |-> {}]
  /\ report_file = [written |-> FALSE, delta |-> 0]
  /\ printed = [shown |-> FALSE, format |-> "", n |-> 0]
  /\ raised = NoException

\* Whole runs: every outcome of every external command, with and without
\* --json, --ios_version and --build_timeout (the string the command line
\* gives, or the number a caller of GetPodSizeImpact may pass), in every file
\* system.
Init ==
  \E pods \in {<<<<"A">>>>, <<<<"A", ":", "1">>>>, <<<<"A", ":", "1">>, <<"B">>>>},
     repos \in {<<>>, <<MASTER_SOURCE, "cpdc-eap">>},
     config \in {NoConfig, Config(EmptyDoc), Config(OtherDoc),
                 Config(PodsDoc(<<Entry(<<"sdk", "git", "branch">>, <<"A">>)>>)),
                 Config(PodsDoc(<<Entry(<<"sdk", "git">>, <<"C">>)>>)),
                 Config(PodsDoc(<<Entry(<<"sdk">>, <<"A">>)>>))},
     json \in {NoneValue, "out.json"},
     ios \in {NoneValue, "12.0"},
     timeout \in {NoTimeout, StrTimeout, IntTimeout},
     e \in Envs :
    Start(Args(pods, repos, config, json, ios, timeout, MODE_OBJC), e)

Spec == Init /\ [][Next]_vars

\* Runs without --json and without a source config, over the --spec_repos
\* lists and the build timeouts.
InitPlain ==
  \E repos \in RepoArgLists, ios \in {NoneValue, "12.0"},
     timeout \in {NoTimeout, StrTimeout, IntTimeout} :
    Start(Args(<<<<"A", ":", "1">>>>, repos, NoConfig, NoneValue, ios,
               timeout, MODE_OBJC), GoodEnv)

SpecPlain == InitPlain /\ [][Next]_vars

\* Runs over the --cocoapods lists and the source configs.
InitManifest ==
  \E pods \in PodArgLists,
     config \in {NoConfig, Config(EmptyDoc), Config(OtherDoc)}
                  \cup {Config(PodsDoc(es)) : es \in SeqsUpTo(CoreEntries, MaxEntries)},
     m \in {<<MODE_OBJC, NoneValue>>, <<MODE_SWIFT, "12.0">>} :
    Start(Args(pods, <<>>, config, NoneValue, m[2], NoTimeout, m[1]), GoodEnv)

SpecManifest == InitManifest /\ [][Next]_vars

\* Runs over the source configs.
InitValidate ==
  \E config \in {Config(EmptyDoc), Config(OtherDoc)}
                  \cup {Config(PodsDoc(<<e>>)) : e \in Entries}
                  \cup {Config(PodsDoc(es)) : es \in SeqsUpTo(CoreEntries, MaxEntries)} :
    Start(Args(<<<<"A">>>>, <<>>, config, NoneValue, "12.0", NoTimeout, MODE_OBJC),
          GoodEnv)

SpecValidate == InitValidate /\ [][Next]_vars

\* ================================================================== claims
Ended == pc \in {"done", "raised"}

Measured(side) == side \in sizes.measured

BuildFailed(cmd) == result[cmd] \in {"fail", "timeout"}

\* The schema of a source config as the specification words it.
WellFormedEntry(e) ==
  /\ Len(e) \in {2, 3}
  /\ e[1].k = "sdk"
  /\ Strip(e[1].v) # <<>>
  /\ e[2].k \in {"git", "path"}
  /\ Len(e) = 3 => e[2].k = "git" /\ e[3].k \in {"branch", "tag", "commit"}

WellFormedDoc(doc) ==
  /\ \E i \in 1..Len(doc) : doc[i].k = "pods"
  /\ \A i \in 1..Len(doc) :
       doc[i].k = "pods" => \A j \in 1..Len(doc[i].v) : WellFormedEntry(doc[i].v[j])

\* C1: whenever the measured target size is 0, the run ends by raising the
\* measurement-failure ValueError, whose message lists every requested
\* dependency, as name:version when a version was given and as the name alone
\* when it was not.
C1_ZeroTargetRaisesMeasurementFailure ==
  (Ended /\ Measured("target") /\ sizes.target = 0) =>
    /\ raised.type = "ValueError"
    /\ raised.kind = "measurement"
    /\ Len(raised.pods) = Len(cocoapods)
    /\ \A i \in 1..Len(cocoapods) :
         raised.pods[i] = IF cocoapods[i].v # <<>>
                            THEN cocoapods[i].k \o <<":">> \o cocoapods[i].v
                            ELSE cocoapods[i].k

\* The dependency line the specification expects for the i-th requested pod.
FirstMatch(pod, entries) ==
  CHOOSE j \in 1..Len(entries) :
    /\ DictGet(entries[j], "sdk") = pod
    /\ \A m \in 1..(j - 1) : DictGet(entries[m], "sdk") # pod

ExpectedPodLine(i) ==
  LET pod == cocoapods[i].k
      version == cocoapods[i].v
      entries == IF pod_sources.given /\ DictHas(pod_sources.doc, "pods")
                   THEN DictGet(pod_sources.doc, "pods") ELSE <<>>
  IN IF version # <<>> THEN Line("pod", pod, version, <<>>)
     ELSE IF \E j \in 1..Len(entries) : DictGet(entries[j], "sdk") = pod
       THEN Line("pod", pod, <<>>, SelectSeq(entries[FirstMatch(pod, entries)], NonSdk))
     ELSE Line("pod", pod, <<>>, <<>>)

IsPodLine(l) == l.t = "pod"

TargetLineAt(lines) == CHOOSE i \in 1..Len(lines) : lines[i].t = "target"

\* C2: the written manifest holds, inside the target block, exactly one
\* dependency line per requested dependency, in request order: the literal
\* version when one was given, else the matching override entry's
\* non-identifier pairs in their order, else a bare unversioned line.
C2_OneLinePerDependency ==
  (podfile.written /\ podfile.complete) =>
    LET lines == podfile.lines
        block == SubSeq(lines, TargetLineAt(lines) + 1, Len(lines) - 1)
    IN /\ lines[Len(lines)].t = "end"
       /\ SelectSeq(lines, IsPodLine) = block
       /\ Len(block) = Len(cocoapods)
       /\ \A i \in 1..Len(block) : block[i] = ExpectedPodLine(i)

\* C3: ValidateSourceConfig accepts a document exactly when it is well formed,
\* and rejects every other document with a ValueError.
C3_ValidatorAcceptsExactlyWellFormed ==
  (pc \notin {"parse", "load_config"} /\ pod_sources.given
     /\ Len(pod_sources.doc) > 0) =>
    IF WellFormedDoc(pod_sources.doc)
      THEN raised.kind # "schema"
      ELSE pc = "raised" /\ raised.kind = "schema" /\ raised.type = "ValueError"

\* C4: a run given a malformed source config (one without the top-level
\* container key included) is aborted with the schema error before any
\* external command runs and before any sandbox directory is made.
C4_MalformedConfigAbortsBeforeAnyWork ==
  (argv.source_config.given /\ ~WellFormedDoc(argv.source_config.doc)) =>
    /\ tmpdirs = 0
    /\ \A c \in Commands : calls[c] = 0
    /\ pc \notin {"parse", "load_config"} => pc = "raised" /\ raised.kind = "schema"

IsSourceLine(l) == l.t = "source"

\* The locators of the manifest's source directives, in order.
ManifestSources ==
  LET ls == SelectSeq(podfile.lines, IsSourceLine)
  IN [i \in 1..Len(ls) |-> ls[i].a[1]]

Canonical(repo) ==
  CASE repo = "cpdc-internal" -> "sso://cpdc-internal/spec"
    [] repo = "cpdc-eap" -> "sso://cpdc-eap/spec"
    [] repo = "specsstaging" -> "https://github.com/firebase/SpecsStaging"
    [] repo = "master" -> "https://cdn.cocoapods.org/"
    [] OTHER -> repo

\* C5: when the input list of spec repos holds the master alias at any
\* position, the last source directive of the manifest is master's canonical
\* locator and the other entries appear before it, expanded through the alias
\* table, in their input order.
C5_MasterSourceLast ==
  (podfile.written /\ \E i \in 1..Len(argv.spec_repos) : argv.spec_repos[i] = "master") =>
    LET src == ManifestSources
        n == Len(argv.spec_repos)
    IN /\ Len(src) = n
       /\ src[n] = "https://cdn.cocoapods.org/"
       /\ \E i \in 1..n :
            /\ argv.spec_repos[i] = "master"
            /\ \A j \in 1..(n - 1) :
                 src[j] = Canonical(argv.spec_repos[IF j < i THEN j ELSE j + 1])

\* A manifest written for the input 'master cpdc-eap https://example.com/specs'.
C5_Witness ==
  /\ podfile.written
  /\ argv.spec_repos = <<"master", "cpdc-eap", "https://example.com/specs">>
  /\ ManifestSources = <<"sso://cpdc-eap/spec", "https://example.com/specs",
                         "https://cdn.cocoapods.org/">>

ExternalSteps == {"pod_install", "xcodebuild_source", "xcodebuild_target"}

\* C6: whatever the dependency install and the two builds end with, the run
\* is not aborted there: each of the three commands runs at most once, a run
\* that started the baseline build also runs the target build and measures
\* both trees, and so does every run that got to the install with a readable
\* build configuration and a copied baseline tree.
C6_ExternalFailuresDoNotAbort ==
  /\ \A c \in ExternalSteps : calls[c] <= 1
  /\ (Ended /\ calls["xcodebuild_source"] = 1) =>
       calls["xcodebuild_target"] = 1 /\ sizes.measured = {"source", "target"}
  /\ (Ended /\ calls["pod_install"] = 1 /\ env.config.readable
        /\ env.config.compiler_flags /\ trees.base) =>
       /\ calls["xcodebuild_source"] = 1
       /\ calls["xcodebuild_target"] = 1
       /\ sizes.measured = {"source", "target"}

Classification(delta) ==
  IF delta > 0 THEN "grew by {} bytes"
  ELSE IF delta < 0 THEN "shrank by {} bytes"
  ELSE "unchanged"

\* C7 as stated: the printed delta is target_bytes - source_bytes and the
\* message is one of three, grew by N, shrank by N or unchanged, by its sign.
C7_ThreeMessages ==
  printed.shown =>
    /\ printed.n = sizes.target - sizes.source
    /\ printed.format = Classification(sizes.target - sizes.source)

\* C7, amended: a run that measured a non-zero target size and gets to its
\* report prints target_bytes - source_bytes, and so does any report file it
\* wrote; the printed line has the same wording whether the delta is
\* positive, negative or zero, and only the sign of the number tells them
\* apart.
C7_SignedDeltaOneMessage ==
  /\ printed.shown =>
       /\ sizes.target # 0
       /\ printed.n = sizes.target - sizes.source
       /\ printed.format = "The pods combined add an extra size of {} bytes"
  /\ report_file.written => report_file.delta = sizes.target - sizes.source
  /\ (pc = "done") = printed.shown
  /\ (Ended /\ Measured("target") /\ sizes.target # 0 /\ raised.type # "TypeError")
       => printed.shown

\* A finished run whose target app is smaller than the baseline app.
C7_Witness ==
  /\ pc = "done"
  /\ printed.shown
  /\ sizes.source = 500
  /\ sizes.target = 250
  /\ printed.n = -250

PodCommands == {"pod_init", "pod_install", "pod_ipc"}
BuildCommands == {"xcodebuild_source", "xcodebuild_target"}

\* C8: with the template directory missing the run ends with an error and
\* reports no delta; the copy is attempted once per tree, and neither the
\* dependency manager nor the build toolchain is ever invoked.
C8_MissingTemplateIsFatal ==
  ~env.template_present =>
    /\ pc # "done"
    /\ ~printed.shown
    /\ ~report_file.written
    /\ calls["cp_base"] <= 1
    /\ calls["cp_target"] <= 1
    /\ \A c \in PodCommands \cup BuildCommands : calls[c] = 0
    /\ pc \notin {"parse", "load_config", "ios_version", "mkdtemp", "copy_base",
                  "copy_target", "install"} =>
         /\ pc = "raised"
         /\ tmpdirs > 0 =>
              /\ calls["cp_base"] = 1
              /\ calls["cp_target"] = 1
              /\ raised.type = "FileNotFoundError"

\* A run ended by the missing tree after one copy attempt per tree.
C8_Witness ==
  /\ ~env.template_present
  /\ pc = "raised"
  /\ raised.type = "FileNotFoundError"
  /\ tmpdirs = 2
  /\ calls["cp_base"] = 1
  /\ calls["cp_target"] = 1
  /\ result["cp_base"] = "fail"
  /\ result["cp_target"] = "fail"

\* C9: whenever a build, baseline or target, fails or times out, the run ends
\* with the measurement-failure error and neither prints nor persists a delta.
C9_FailedBuildIsCaught ==
  (Ended /\ (BuildFailed("xcodebuild_source") \/ BuildFailed("xcodebuild_target"))
     /\ sizes.measured = {"source", "target"}) =>
    /\ pc = "raised"
    /\ raised.kind = "measurement"
    /\ ~printed.shown
    /\ ~report_file.written

\* C10: in a run whose measured target size is 0 no delta is emitted: the
\* delta line is not printed and no report file holding the delta is written.
C10_NoDeltaOnZeroTarget ==
  (Measured("target") /\ sizes.target = 0) =>
    ~printed.shown /\ ~report_file.written

\* InstallPods has returned and GenerateSizeDifference is not yet entered.
InstallPodsReturned == pc = "size_difference"

\* GenerateSizeDifference has returned: both sizes are measured and the run
\* is past the second build.
GenerateSizeDifferenceReturned ==
  /\ sizes.measured = {"source", "target"}
  /\ pc \in {"json", "report", "done", "raised"}

\* C11: the working directory is restored around the external calls. After
\* InstallPods returns and after GenerateSizeDifference returns, whatever the
\* outcome (success, non-zero exit, timeout) of the commands run inside them,
\* the working directory is the one recorded at their entry, which is the
\* directory the run was started in; and the target build is started from the
\* target tree's directory, the one InstallPods worked in, not from the
\* baseline tree's directory.
C11_CwdRestored ==
  /\ (InstallPodsReturned \/ GenerateSizeDifferenceReturned) =>
       /\ cwd = saved_cwd
       /\ cwd = InvocationDir
  /\ calls["xcodebuild_target"] > 0 =>
       /\ ran_in["xcodebuild_target"] = TargetDir(argv.mode)
       /\ ran_in["xcodebuild_target"] = ran_in["pod_install"]
       /\ ran_in["xcodebuild_target"] # ran_in["xcodebuild_source"]
       /\ ran_in["xcodebuild_source"] = Dirname(SourceProject(argv.mode))

\* GenerateSizeDifference returned after 'pod install' failed, the baseline
\* build timed out and the target build failed; the directory is restored.
C11_Witness ==
  /\ GenerateSizeDifferenceReturned
  /\ result["pod_install"] = "fail"
  /\ result["xcodebuild_source"] = "timeout"
  /\ result["xcodebuild_target"] = "fail"
  /\ ran_in["xcodebuild_target"] = TargetDir(argv.mode)
  /\ cwd = InvocationDir

=============================================================================
